---- MODULE Spec2Model ----
(***************************************************************************)
(* Bridge server of the AI voice receptionist (src/main.py): the per-call  *)
(* session store, the call-start webhook, the media-stream relay with its  *)
(* two pipelines, the booking tool call and the post-call hand-off.        *)
(***************************************************************************)
EXTENDS Integers, Sequences, FiniteSets, TLC

\* ------------------------------------------------------------------ bounds
\* phone-leg messages received in a run that follows the caller-to-agent pipeline
MaxPhoneMsgs == 3
\* agent events received in a run that follows the agent-to-caller pipeline
MaxAgentEvents == 3
\* phone-leg messages and agent events received in the other runs
FewPhoneMsgs == 1
FewAgentEvents == 1
\* agent events received in a run that follows one tool call and what comes after it
SomeAgentEvents == 2
\* direct invocations of trigger_post_call by a caller of the function
MaxDirect == 2

\* media-stream connections (websocket_endpoint tasks), in the order they are used
RelaySeq == <<"ws1", "ws2">>
Relays == {RelaySeq[i] : i \in DOMAIN RelaySeq}
\* CallSid values of the call-start form; "" is form.get("CallSid", "")
CallSids == {"", "CA1", "CA2"}
\* byte lengths of the mu-law payload of a phone media event
PhoneLens == {0, 3}
\* byte lengths of response.data of an agent event
AgentLens == {0, 3, 12}

\* ------------------------------------------------------------ python values
None == "<None>"
EmptyDict == [k \in {} |-> ""]
Get(d, k, default) == IF k \in DOMAIN d THEN d[k] ELSE default
Update(d, e) == [k \in (DOMAIN d) \cup (DOMAIN e) |-> IF k \in DOMAIN e THEN e[k] ELSE d[k]]
\* truth value of an Optional[str] and of a dict
Truthy(s) == s # None /\ s # ""
TruthyDict(d) == DOMAIN d # {}
Last(s) == s[Len(s)]

CallerPhone == "+15550001"
CalledNumber == "+15550002"

\* the client config n8n Flow A answers with when the number is registered
ClientConfig ==
  [success |-> TRUE, companyName |-> "Acme Dental", calendarId |-> "cal-1",
   timezone |-> "UTC", systemPrompt |-> "You are Acme's receptionist.",
   clientRecordId |-> "rec-1"]

\* outcomes of the POST to Flow A as lookup_client sees them
LookupOutcomes == {"ok", "not_success", "non200", "error"}

\* lookup_client without the status and success checks
lookup_client_always(outcome) == ClientConfig

\* the Optional[dict] lookup_client returns; None is written as the empty dict,
\* which `if not client_config` treats alike
lookup_client(outcome) == IF outcome = "ok" THEN ClientConfig ELSE EmptyDict

SayHangup == "say_hangup"
ConnectStream == "connect_stream"

NewSession(caller_phone, called_number, client_config) ==
  [callerPhone |-> caller_phone,
   calledNumber |-> called_number,
   companyName |-> Get(client_config, "companyName", ""),
   calendarId |-> Get(client_config, "calendarId", ""),
   timezone |-> Get(client_config, "timezone", "America/New_York"),
   systemPrompt |-> Get(client_config, "systemPrompt", ""),
   clientRecordId |-> Get(client_config, "clientRecordId", ""),
   callerName |-> "",
   callerEmail |-> "",
   appointmentBooked |-> FALSE,
   appointmentTime |-> "",
   reason |-> "",
   callSummary |-> ""]

\* --------------------------------------------------------------- the codec
\* audioop.ratecv with state None: frames produced for f input frames
RECURSIVE RatecvFrames(_, _, _, _)
RatecvFrames(f, inrate, outrate, d) ==
  IF d < 0
    THEN IF f = 0 THEN 0 ELSE RatecvFrames(f - 1, inrate, outrate, d + outrate)
    ELSE 1 + RatecvFrames(f, inrate, outrate, d - inrate)

RECURSIVE GCD(_, _)
GCD(a, b) == IF b = 0 THEN a ELSE GCD(b, a % b)

Err == -1
\* byte length of audioop.ratecv(fragment, width, 1, inrate, outrate, None),
\* Err for "not a whole number of frames"
ratecv(len, width, inrate, outrate) ==
  LET g == GCD(inrate, outrate)
  IN IF len % width # 0 THEN Err
     ELSE width * RatecvFrames(len \div width, inrate \div g, outrate \div g,
                               -(outrate \div g))
ulaw2lin(len, width) == len * width
lin2ulaw(len, width) == IF len % width # 0 THEN Err ELSE len \div width

\* twilio_to_gemini: mu-law 8 kHz payload -> the Blob sent to the agent
EncodeForAgent(frame) ==
  [seq |-> frame.seq, mime_type |-> "audio/pcm;rate=24000",
   len |-> ratecv(ulaw2lin(frame.len, 2), 2, 8000, 24000)]

\* gemini_to_twilio: PCM 24 kHz chunk -> length of the mu-law payload, or Err
DecodeForPhone(len) ==
  LET pcm_8k == ratecv(len, 2, 24000, 8000)
  IN IF pcm_8k = Err THEN Err ELSE lin2ulaw(pcm_8k, 2)

\* --------------------------------------------------------------- the state
VARIABLES
  session_store,  \* CallSid -> session dict
  twiml,          \* CallSid -> last TwiML answered by incoming_call (None before)
  lookupOk,       \* CallSid -> TRUE once Flow A has answered success for it
  pc,             \* relay -> position of websocket_endpoint
  connCall,       \* relay -> CallSid the telephony leg opened the stream for
  call_sid,       \* relay -> local call_sid
  stream_sid,     \* relay -> local stream_sid
  system_prompt,  \* relay -> system instruction of the agent session
  agent,          \* relay -> state of gemini_session
  opened,         \* relay -> agent sessions this relay has opened
  t2g,            \* relay -> state of the twilio_to_gemini task
  g2t,            \* relay -> state of the gemini_to_twilio task
  pending,        \* relay -> the tool call handle_booking is awaiting (empty if none)
  rx,             \* relay -> phone-leg messages received by the relay's pipeline
  agentIn,        \* relay -> Blobs sent to the agent session
  ax,             \* relay -> agent events received by the relay
  phoneOut,       \* relay -> media events sent to the phone leg
  toolResp,       \* relay -> function responses sent to the agent session
  hadSession,     \* relay -> a session for connCall was stored when the stream arrived
  confirmed,      \* CallSid -> last action Flow B confirmed for the call not yet handed off
  handoffs,       \* POSTs made to Flow C, in order
  direct,         \* direct invocations of trigger_post_call made by the harness
  nPhone,         \* phone-leg messages received so far, all relays
  nAgent,         \* agent events received so far, all relays
  limit           \* what the environment does in this run: streams, call ids, messages

vars == <<session_store, twiml, lookupOk, pc, connCall, call_sid, stream_sid,
          system_prompt, agent, opened, t2g, g2t, pending, rx, agentIn, ax, phoneOut,
          toolResp, hadSession, confirmed, handoffs, direct, nPhone, nAgent,
          limit>>

relayVars == <<pc, connCall, call_sid, stream_sid, system_prompt, agent, opened, t2g,
               g2t, pending, rx, agentIn, ax, phoneOut, toolResp, hadSession, nPhone, nAgent, limit>>

InitWith(lim) ==
  /\ limit = lim
  /\ session_store = EmptyDict
  /\ twiml = [c \in CallSids |-> None]
  /\ lookupOk = [c \in CallSids |-> FALSE]
  /\ pc = [r \in Relays |-> "closed"]
  /\ connCall = [r \in Relays |-> None]
  /\ call_sid = [r \in Relays |-> None]
  /\ stream_sid = [r \in Relays |-> None]
  /\ system_prompt = [r \in Relays |-> None]
  /\ agent = [r \in Relays |-> "none"]
  /\ opened = [r \in Relays |-> 0]
  /\ t2g = [r \in Relays |-> "idle"]
  /\ g2t = [r \in Relays |-> "idle"]
  /\ pending = [r \in Relays |-> EmptyDict]
  /\ rx = [r \in Relays |-> <<>>]
  /\ agentIn = [r \in Relays |-> <<>>]
  /\ ax = [r \in Relays |-> <<>>]
  /\ phoneOut = [r \in Relays |-> <<>>]
  /\ toolResp = [r \in Relays |-> <<>>]
  /\ hadSession = [r \in Relays |-> FALSE]
  /\ confirmed = [c \in CallSids |-> EmptyDict]
  /\ handoffs = <<>>
  /\ direct = 0
  /\ nPhone = 0
  /\ nAgent = 0

\* two concurrent streams of one call, few messages on each
Init ==
  InitWith([relays |-> 2, sids |-> {"CA1"}, phone |-> FewPhoneMsgs,
            agent |-> FewAgentEvents])
\* one stream, followed through its caller-to-agent pipeline
InitCaller ==
  InitWith([relays |-> 1, sids |-> {"CA1"}, phone |-> MaxPhoneMsgs,
            agent |-> FewAgentEvents])
\* one stream, followed through its agent-to-caller pipeline
InitAgent ==
  InitWith([relays |-> 1, sids |-> {"CA1"}, phone |-> FewPhoneMsgs,
            agent |-> MaxAgentEvents])
\* one stream, few messages, and callers of trigger_post_call
InitDirect ==
  InitWith([relays |-> 1, sids |-> {"CA1"}, phone |-> FewPhoneMsgs,
            agent |-> FewAgentEvents])
\* two calls and one stream
InitCalls ==
  InitWith([relays |-> 1, sids |-> {"CA1", "CA2"}, phone |-> FewPhoneMsgs,
            agent |-> FewAgentEvents])
\* a call-start request without a call identifier, a call, and one stream
InitNoSid ==
  InitWith([relays |-> 1, sids |-> {"", "CA1"}, phone |-> FewPhoneMsgs,
            agent |-> FewAgentEvents])

\* one stream, a tool call and the agent event after it
InitAction ==
  InitWith([relays |-> 1, sids |-> {"CA1"}, phone |-> FewPhoneMsgs,
            agent |-> SomeAgentEvents])

\* ---------------------------------------------------------- POST /incoming-call
StoreSession(store, sid, session) ==
  [k \in (DOMAIN store) \cup {sid} |-> IF k = sid THEN session ELSE store[k]]

incoming_call(sid, outcome) ==
  /\ sid \in limit.sids
  /\ LET client_config == lookup_client(outcome)
     IN IF ~TruthyDict(client_config)
          THEN /\ twiml' = [twiml EXCEPT ![sid] = SayHangup]
               /\ UNCHANGED session_store
          ELSE /\ session_store' =
                    StoreSession(session_store, sid,
                                 NewSession(CallerPhone, CalledNumber, client_config))
               /\ twiml' = [twiml EXCEPT ![sid] = ConnectStream]
  /\ lookupOk' = [lookupOk EXCEPT ![sid] = @ \/ outcome = "ok"]
  /\ UNCHANGED <<relayVars, confirmed, handoffs, direct, limit>>

\* ------------------------------------------------------------ the phone leg
\* the first message websocket_endpoint reads
FirstMsgs == {"start", "connected", "badjson", "close"}

\* the Twilio start message of the stream opened for call c
StartMsg(c) ==
  [event |-> "start", streamSid |-> "MZ-" \o c, customCallSid |-> c, callSid |-> c]

\* msg["start"].get("customParameters", {}).get("callSid") or msg["start"].get("callSid", "")
StartCallSid(msg) == IF Truthy(msg.customCallSid) THEN msg.customCallSid ELSE msg.callSid

DefaultPrompt == "You are a helpful receptionist."

\* session_store.get(call_sid, {}).get("systemPrompt", DefaultPrompt)
SessionPrompt(store, sid) ==
  IF sid \in DOMAIN store THEN Get(store[sid], "systemPrompt", DefaultPrompt)
  ELSE DefaultPrompt

\* messages _twilio_stream reads inside the relay
PhoneMsgs ==
  [kind : {"media"}, len : PhoneLens]
    \cup [kind : {"stop", "other", "badjson", "badshape", "close"}, len : {0}]

\* ------------------------------------------------------------ the agent leg
BookingArgs ==
  { [callerName |-> "Ava", callerEmail |-> "a@b.com", date |-> "2025-03-01",
     time |-> "14:00", reason |-> "consult"],
    [callerName |-> "Bo", callerEmail |-> "bo@c.org", date |-> "2025-03-02",
     time |-> "09:30", reason |-> "cleaning"] }

\* events gemini_session.receive() yields (an event with no data and no tool call
\* is the audio event of length 0), its end and its failure
AgentEvents ==
  [kind : {"audio"}, len : AgentLens, args : {EmptyDict}]
    \cup [kind : {"tool_call"}, len : {0}, args : BookingArgs]
    \cup [kind : {"end", "raise"}, len : {0}, args : {EmptyDict}]

\* ------------------------------------------------------------- websocket /ws
\* streams opened so far
Started == Cardinality({r \in Relays : pc[r] # "closed"})

\* websocket_endpoint from ws.accept() to the start of gather: the telephony leg
\* opens the stream the TwiML of call c asked for and sends m as the first message;
\* the session is looked up under call_sid and the agent session is opened (ok) or
\* the connect fails. No other task's state is read or written after the lookup.
StreamStart(r, c, m, ok) ==
  /\ pc[r] = "closed"
  /\ Started < limit.relays
  /\ r = RelaySeq[Started + 1]
  /\ twiml[c] = ConnectStream
  /\ connCall' = [connCall EXCEPT ![r] = c]
  /\ hadSession' = [hadSession EXCEPT ![r] = c \in DOMAIN session_store]
  /\ IF m \in {"badjson", "close"}
       THEN /\ ~ok
            /\ pc' = [pc EXCEPT ![r] = "finally"]
            /\ UNCHANGED <<call_sid, stream_sid, system_prompt, agent, opened, t2g, g2t>>
       ELSE /\ IF m = "start"
                 THEN /\ stream_sid' = [stream_sid EXCEPT ![r] = StartMsg(c).streamSid]
                      /\ call_sid' = [call_sid EXCEPT ![r] = StartCallSid(StartMsg(c))]
                 ELSE UNCHANGED <<call_sid, stream_sid>>
            /\ system_prompt' =
                 [system_prompt EXCEPT ![r] = SessionPrompt(session_store, call_sid'[r])]
            /\ IF ok
                 THEN /\ pc' = [pc EXCEPT ![r] = "gather"]
                      /\ agent' = [agent EXCEPT ![r] = "open"]
                      /\ opened' = [opened EXCEPT ![r] = @ + 1]
                      /\ t2g' = [t2g EXCEPT ![r] = "recv"]
                      /\ g2t' = [g2t EXCEPT ![r] = "recv"]
                 ELSE /\ pc' = [pc EXCEPT ![r] = "finally"]
                      /\ UNCHANGED <<agent, opened, t2g, g2t>>
  /\ UNCHANGED <<session_store, twiml, lookupOk, pending, rx, agentIn, ax,
                 phoneOut, toolResp, confirmed, handoffs, direct, nPhone, nAgent, limit>>

\* a send that overtakes the items sent before it
gemini_send_reordered(inbox, item) == <<item>> \o inbox

\* gemini_session.send(input=...): the agent receives what is sent, in the order sent
gemini_send(inbox, item) == Append(inbox, item)

\* the phone connection has been closed (by the caller, or by the server once the
\* endpoint has returned)
WsClosed(r) == pc[r] = "done" \/ (rx[r] # <<>> /\ Last(rx[r]).kind = "close")

\* one iteration of `async for msg in _twilio_stream(ws)` in twilio_to_gemini
twilio_to_gemini(r, m) ==
  /\ t2g[r] = "recv"
  /\ nPhone < limit.phone
  /\ nPhone' = nPhone + 1
  /\ pc[r] = "done" => m.kind = "close"
  /\ LET frame == [kind |-> m.kind, len |-> m.len, seq |-> Len(rx[r]) + 1]
     IN /\ rx' = [rx EXCEPT ![r] = Append(@, frame)]
        /\ CASE m.kind = "media" ->
                  IF agent[r] = "open"
                    THEN /\ agentIn' = [agentIn EXCEPT ![r] = gemini_send(@, EncodeForAgent(frame))]
                         /\ UNCHANGED t2g
                    ELSE /\ t2g' = [t2g EXCEPT ![r] = "failed"]
                         /\ UNCHANGED agentIn
             [] m.kind \in {"stop", "badjson", "close"} ->
                  /\ t2g' = [t2g EXCEPT ![r] = "done"]
                  /\ UNCHANGED agentIn
             [] m.kind = "badshape" ->
                  /\ t2g' = [t2g EXCEPT ![r] = "failed"]
                  /\ UNCHANGED agentIn
             [] OTHER -> UNCHANGED <<t2g, agentIn>>
  /\ UNCHANGED <<session_store, twiml, lookupOk, pc, connCall, call_sid,
                 stream_sid, system_prompt, agent, opened, g2t, pending, ax, phoneOut,
                 toolResp, hadSession, confirmed, handoffs, direct, nAgent, limit>>

\* the JSON body handle_booking POSTs to Flow B
BookingPayload(args, session) ==
  [callerName |-> Get(args, "callerName", ""),
   callerEmail |-> Get(args, "callerEmail", ""),
   callerPhone |-> Get(session, "callerPhone", ""),
   date |-> Get(args, "date", ""),
   time |-> Get(args, "time", ""),
   reason |-> Get(args, "reason", ""),
   durationMinutes |-> Get(args, "durationMinutes", 60),
   calendarId |-> Get(session, "calendarId", ""),
   timezone |-> Get(session, "timezone", "America/New_York"),
   companyName |-> Get(session, "companyName", ""),
   clientRecordId |-> Get(session, "clientRecordId", "")]

\* a receive loop that is not held up by the await of handle_booking
AtReceive_while_booking(r) == g2t[r] \in {"recv", "booking"}

\* the gemini_to_twilio task is at `async for response in gemini_session.receive()`,
\* not suspended inside the body of the loop
AtReceive(r) == g2t[r] = "recv"

\* one iteration of `async for response in gemini_session.receive()`, up to the
\* await of handle_booking
gemini_to_twilio(r, ev) ==
  /\ AtReceive(r)
  /\ nAgent < limit.agent
  /\ nAgent' = nAgent + 1
  /\ agent[r] # "open" => ev.kind \in {"end", "raise"}
  /\ ax' = [ax EXCEPT ![r] = Append(@, ev)]
  /\ CASE ev.kind = "audio" /\ ev.len # 0 ->
            /\ IF DecodeForPhone(ev.len) = Err \/ WsClosed(r)
                 THEN /\ g2t' = [g2t EXCEPT ![r] = "failed"]
                      /\ UNCHANGED phoneOut
                 ELSE /\ phoneOut' = [phoneOut EXCEPT ![r] =
                            Append(@, [event |-> "media", streamSid |-> stream_sid[r],
                                       len |-> DecodeForPhone(ev.len),
                                       seq |-> Len(ax[r]) + 1])]
                      /\ UNCHANGED g2t
            /\ UNCHANGED <<pending, agent>>
       [] ev.kind = "tool_call" ->
            /\ g2t' = [g2t EXCEPT ![r] = "booking"]
            /\ pending' = [pending EXCEPT ![r] =
                 [id |-> Len(ax[r]) + 1, name |-> "book_appointment", args |-> ev.args,
                  payload |-> BookingPayload(ev.args,
                                IF call_sid[r] \in DOMAIN session_store
                                  THEN session_store[call_sid[r]] ELSE EmptyDict),
                  stored |-> call_sid[r] \in DOMAIN session_store]]
            /\ UNCHANGED <<phoneOut, agent>>
       [] ev.kind = "end" ->
            /\ g2t' = [g2t EXCEPT ![r] = "done"]
            /\ UNCHANGED <<phoneOut, pending, agent>>
       [] ev.kind = "raise" ->
            /\ g2t' = [g2t EXCEPT ![r] = "failed"]
            /\ agent' = [agent EXCEPT ![r] = IF @ = "open" THEN "dropped" ELSE @]
            /\ UNCHANGED <<phoneOut, pending>>
       [] OTHER -> UNCHANGED <<g2t, phoneOut, pending, agent>>
  /\ UNCHANGED <<session_store, twiml, lookupOk, pc, connCall, call_sid,
                 stream_sid, system_prompt, opened, t2g, rx, agentIn, toolResp,
                 hadSession, confirmed, handoffs, direct, nPhone, limit>>

\* what Flow B answers, as handle_booking sees it
BookingOutcomes == {"success", "unavailable", "error"}
BookingFailed == [success |-> FALSE, message |-> "Booking system temporarily unavailable."]
FlowBResult(outcome) ==
  IF outcome = "success" THEN [success |-> TRUE, message |-> "Booked."]
  ELSE [success |-> FALSE, message |-> "Slot unavailable."]

\* the outcome fields handle_booking writes on success
BookingUpdate(args) ==
  [appointmentBooked |-> TRUE,
   appointmentTime |-> Get(args, "date", None) \o " " \o Get(args, "time", None),
   callerName |-> Get(args, "callerName", ""),
   callerEmail |-> Get(args, "callerEmail", ""),
   reason |-> Get(args, "reason", "")]

\* handle_booking without the test of result.get("success")
handle_booking_unchecked(store, args, sid, outcome) ==
  IF outcome = "error" THEN [store |-> store, result |-> BookingFailed]
  ELSE IF sid \in DOMAIN store
    THEN [store |-> [store EXCEPT ![sid] = Update(@, BookingUpdate(args))],
          result |-> FlowBResult(outcome)]
    ELSE [store |-> store, result |-> BookingFailed]

\* handle_booking from the answer of Flow B on: [store, result]
handle_booking(store, args, sid, outcome) ==
  IF outcome = "error" THEN [store |-> store, result |-> BookingFailed]
  ELSE IF FlowBResult(outcome).success
    THEN IF sid \in DOMAIN store
           THEN [store |-> [store EXCEPT ![sid] = Update(@, BookingUpdate(args))],
                 result |-> FlowBResult(outcome)]
           ELSE [store |-> store, result |-> BookingFailed]
    ELSE [store |-> store, result |-> FlowBResult(outcome)]

\* handle_booking returns and the function response is sent to the agent
BookingDone(r, outcome) ==
  /\ g2t[r] = "booking"
  /\ LET hb == handle_booking(session_store, pending[r].args, call_sid[r], outcome)
     IN /\ session_store' = hb.store
        /\ IF agent[r] = "open"
             THEN /\ toolResp' = [toolResp EXCEPT ![r] =
                        gemini_send(@, [id |-> pending[r].id, name |-> pending[r].name,
                                        response |-> hb.result, flowb |-> outcome])]
                  /\ g2t' = [g2t EXCEPT ![r] = "recv"]
             ELSE /\ g2t' = [g2t EXCEPT ![r] = "failed"]
                  /\ UNCHANGED toolResp
  /\ confirmed' =
       IF outcome = "success" /\ call_sid[r] \in CallSids
         THEN [confirmed EXCEPT ![call_sid[r]] =
                 [args |-> pending[r].args, stored |-> pending[r].stored]]
         ELSE confirmed
  /\ pending' = [pending EXCEPT ![r] = EmptyDict]
  /\ UNCHANGED <<twiml, lookupOk, pc, connCall, call_sid, stream_sid,
                 system_prompt, agent, opened, t2g, rx, agentIn, ax, phoneOut,
                 hadSession, handoffs, direct, nPhone, nAgent, limit>>

\* asyncio.gather(twilio_to_gemini(), gemini_to_twilio()) stops waiting: one task
\* has raised, or both have returned
GatherReady(r) ==
  \/ t2g[r] = "failed"
  \/ g2t[r] = "failed"
  \/ (t2g[r] = "done" /\ g2t[r] = "done")

\* gather returns or raises; the async with block closes gemini_session
GatherExit(r) ==
  /\ pc[r] = "gather"
  /\ GatherReady(r)
  /\ agent' = [agent EXCEPT ![r] = "closed"]
  /\ pc' = [pc EXCEPT ![r] = "finally"]
  /\ UNCHANGED <<session_store, twiml, lookupOk, connCall, call_sid, stream_sid,
                 system_prompt, opened, t2g, g2t, pending, rx, agentIn, ax, phoneOut,
                 toolResp, hadSession, confirmed, handoffs, direct, nPhone, nAgent, limit>>

\* ------------------------------------------------------------ the hand-off
\* session_store.pop(call_sid, {})
Pop(store, sid) == [k \in (DOMAIN store) \ {sid} |-> store[k]]
PopData(store, sid) == IF sid \in DOMAIN store THEN store[sid] ELSE EmptyDict

\* the JSON body trigger_post_call POSTs to Flow C
PostCallPayload(data) ==
  [callerName |-> Get(data, "callerName", "Valued Customer"),
   callerEmail |-> Get(data, "callerEmail", ""),
   callerPhone |-> Get(data, "callerPhone", ""),
   companyName |-> Get(data, "companyName", ""),
   appointmentTime |-> Get(data, "appointmentTime", ""),
   reason |-> Get(data, "reason", ""),
   callSummary |-> Get(data, "callSummary", "Call completed via AI Voice Receptionist."),
   clientTwilioPhone |-> Get(data, "calledNumber", ""),
   appointmentBooked |-> Get(data, "appointmentBooked", FALSE)]

\* trigger_post_call up to the POST: the session is taken out of the store and the
\* request is made (by, stored and expect record who called, whether a session was
\* found and the action confirmed for the call so far)
trigger_post_call(sid, by) ==
  /\ session_store' = Pop(session_store, sid)
  /\ handoffs' = Append(handoffs,
       [sid |-> sid, payload |-> PostCallPayload(PopData(session_store, sid)),
        by |-> by, stored |-> sid \in DOMAIN session_store,
        expect |-> IF sid \in CallSids THEN confirmed[sid] ELSE EmptyDict])
  /\ confirmed' = [c \in CallSids |-> IF c = sid THEN EmptyDict ELSE confirmed[c]]

\* a finally block that does not test membership
ShouldTrigger_untested(r) == Truthy(call_sid[r])

\* the membership test of the finally block
ShouldTrigger(r) == Truthy(call_sid[r]) /\ call_sid[r] \in DOMAIN session_store

\* finally: if call_sid and call_sid in session_store: await trigger_post_call(call_sid);
\* the POST answers or fails (logged either way) and the endpoint returns
Finally(r) ==
  /\ pc[r] = "finally"
  /\ pc' = [pc EXCEPT ![r] = "done"]
  /\ IF ShouldTrigger(r)
       THEN trigger_post_call(call_sid[r], r)
       ELSE UNCHANGED <<session_store, handoffs, confirmed>>
  /\ UNCHANGED <<twiml, lookupOk, connCall, call_sid, stream_sid, system_prompt,
                 agent, opened, t2g, g2t, pending, rx, agentIn, ax, phoneOut, toolResp,
                 hadSession, direct, nPhone, nAgent, limit>>

\* trigger_post_call invoked on its own for a call that was started, as a caller of
\* the function may
TriggerDirect(sid) ==
  /\ direct < MaxDirect
  /\ lookupOk[sid]
  /\ direct' = direct + 1
  /\ trigger_post_call(sid, "direct")
  /\ UNCHANGED <<twiml, lookupOk, relayVars>>

\* ------------------------------------------------------------ specifications
Next ==
  \/ \E sid \in CallSids, outcome \in LookupOutcomes : incoming_call(sid, outcome)
  \/ \E r \in Relays, c \in CallSids, m \in FirstMsgs, ok \in BOOLEAN :
       StreamStart(r, c, m, ok)
  \/ \E r \in Relays, m \in PhoneMsgs : twilio_to_gemini(r, m)
  \/ \E r \in Relays, ev \in AgentEvents : gemini_to_twilio(r, ev)
  \/ \E r \in Relays, outcome \in BookingOutcomes : BookingDone(r, outcome)
  \/ \E r \in Relays : GatherExit(r)
  \/ \E r \in Relays : Finally(r)

Spec == Init /\ [][Next]_vars

\* the program together with direct callers of trigger_post_call
NextDirect == Next \/ \E sid \in CallSids : TriggerDirect(sid)

SpecDirect == InitDirect /\ [][NextDirect]_vars

SpecCaller == InitCaller /\ [][Next]_vars

SpecAgent == InitAgent /\ [][Next]_vars

SpecCalls == InitCalls /\ [][Next]_vars

SpecNoSid == InitNoSid /\ [][Next]_vars

SpecAction == InitAction /\ [][Next]_vars

\* ------------------------------------------------------------------ claims
AppointmentTimeOf(args) == args.date \o " " \o args.time
IsPrefix(a, b) == Len(a) <= Len(b) /\ \A i \in 1..Len(a) : a[i] = b[i]
IsMedia(f) == f.kind = "media"
MediaFrames(r) == SelectSeq(rx[r], IsMedia)
Converted(r) == [i \in 1..Len(MediaFrames(r)) |-> EncodeForAgent(MediaFrames(r)[i])]

\* C1: post-call finalization is idempotent per call identifier: an invocation of
\* trigger_post_call that finds the session already removed from session_store
\* makes no POST to Flow C, so a call identifier finalized twice is handed off once.
C1_IdempotentHandoff == \A i \in DOMAIN handoffs : handoffs[i].stored

\* C2: when the relay of a call whose session was stored at call start has run its
\* pipelines and finishes, whichever way it ended, exactly one hand-off has been made
\* for the call identifier and its session is no longer in session_store.
C2_RelayFinishedStep(r) ==
  /\ pc[r] = "finally" /\ pc'[r] = "done"
  /\ opened[r] = 1 /\ hadSession[r] /\ Truthy(connCall[r])
C2_OneHandoffWhenRelayDone ==
  [][\A r \in Relays : C2_RelayFinishedStep(r) =>
        /\ connCall[r] \notin DOMAIN session_store'
        /\ Cardinality({i \in DOMAIN handoffs' : handoffs'[i].sid = connCall[r]}) = 1]_vars

\* C3: either-ends-it: once the caller-to-agent pipeline has ended on the phone's
\* stop or on the phone connection closing, the relay leaves the active state
\* without any further event from the agent session.
C3_EitherEndsIt ==
  \A r \in Relays :
    (pc[r] = "gather" /\ t2g[r] = "done" /\ Last(rx[r]).kind \in {"stop", "close"})
      => GatherReady(r)

\* C4: single agent session per call: no two relays that were given the same call
\* identifier by their start event hold an open agent session at the same time.
C4_SingleAgentSession ==
  \A r1, r2 \in Relays :
    (r1 # r2 /\ agent[r1] = "open" /\ agent[r2] = "open" /\ Truthy(call_sid[r1]))
      => call_sid[r1] # call_sid[r2]

\* C5: ordering, caller to agent: at every moment the Blobs sent to the agent session
\* are the converted media frames in receipt order, a prefix of the frames received,
\* and all of them as long as no send has failed.
C5_OrderingToAgent ==
  \A r \in Relays :
    /\ IsPrefix(agentIn[r], Converted(r))
    /\ t2g[r] # "failed" => agentIn[r] = Converted(r)
C5_Witness ==
  \E r \in Relays :
    /\ Len(agentIn[r]) >= 2
    /\ agentIn[r][1].len # agentIn[r][2].len
    /\ \E i \in DOMAIN rx[r] : rx[r][i].kind # "media"

\* C6: a booking the action handler confirmed for a call with a stored session is in
\* the session's outcome fields while the session is stored, and in the payload of the
\* hand-off made for the call afterwards (appointmentBooked, appointmentTime "D T",
\* contact name, contact address, reason).
C6_OutcomeOf(d, args) ==
  /\ d.appointmentBooked = TRUE
  /\ d.appointmentTime = AppointmentTimeOf(args)
  /\ d.callerName = args.callerName
  /\ d.callerEmail = args.callerEmail
  /\ d.reason = args.reason
C6_BookingReachesHandoff ==
  /\ \A c \in CallSids :
       (Truthy(c) /\ TruthyDict(confirmed[c]) /\ c \in DOMAIN session_store)
         => (confirmed[c].stored => C6_OutcomeOf(session_store[c], confirmed[c].args))
  /\ \A i \in DOMAIN handoffs :
       (Truthy(handoffs[i].sid) /\ TruthyDict(handoffs[i].expect))
         => (handoffs[i].expect.stored
               => C6_OutcomeOf(handoffs[i].payload, handoffs[i].expect.args))

\* C7: a call identifier for which tenant lookup has only failed has no session in
\* session_store, was answered with the say-and-hangup apology, and no media stream
\* (hence no agent session) exists for it.
C7_LookupFailureNoSession ==
  \A c \in CallSids :
    ~lookupOk[c] =>
      /\ c \notin DOMAIN session_store
      /\ twiml[c] \in {None, SayHangup}
      /\ \A r \in Relays : connCall[r] # c
C7_Witness ==
  \E c \in CallSids :
    /\ ~lookupOk[c] /\ twiml[c] = SayHangup
    /\ \E d \in CallSids : d # c /\ d \in DOMAIN session_store

\* C8: when the agent session has dropped (its receive raised) and the relay has
\* finished, the relay opened one agent session only and exactly one hand-off was
\* made for the call, carrying the outcome fields set so far and defaults otherwise.
C8_AgentDropStep(r) ==
  /\ pc[r] = "finally" /\ pc'[r] = "done"
  /\ hadSession[r] /\ Truthy(connCall[r])
  /\ ax[r] # <<>> /\ Last(ax[r]).kind = "raise"
C8_AgentDropHandsOffOnce ==
  [][\A r \in Relays : C8_AgentDropStep(r) =>
        /\ opened[r] = 1
        /\ Cardinality({i \in DOMAIN handoffs' : handoffs'[i].sid = connCall[r]}) = 1
        /\ \A i \in DOMAIN handoffs' :
             handoffs'[i].sid = connCall[r] =>
               IF TruthyDict(handoffs'[i].expect)
                 THEN C6_OutcomeOf(handoffs'[i].payload, handoffs'[i].expect.args)
                 ELSE /\ handoffs'[i].payload.appointmentBooked = FALSE
                      /\ handoffs'[i].payload.appointmentTime = ""]_vars

\* C9: a phone-leg message that fails to parse is dropped and the caller-to-agent
\* pipeline keeps consuming: the pipeline returns only on stop or on the connection
\* closing, and raises only when a send of a media frame to the agent fails.
C9_MalformedMessageDropped ==
  \A r \in Relays :
    /\ t2g[r] = "done" => Last(rx[r]).kind \in {"stop", "close"}
    /\ t2g[r] = "failed" => Last(rx[r]).kind = "media"

\* C10: an audio chunk of odd or zero byte length, in either direction, does not make
\* the pipeline that converts it raise while both legs are connected.
C10_Corrupt(len) == len = 0 \/ len % 2 = 1
C10_CorruptFrameTolerated ==
  \A r \in Relays :
    /\ (rx[r] # <<>> /\ Last(rx[r]).kind = "media" /\ C10_Corrupt(Last(rx[r]).len)
          /\ agent[r] = "open") => t2g[r] # "failed"
    /\ (ax[r] # <<>> /\ Last(ax[r]).kind = "audio" /\ C10_Corrupt(Last(ax[r]).len)
          /\ ~WsClosed(r)) => g2t[r] # "failed"

\* C11: a relay whose start event carried a call identifier with no session in
\* session_store never opens an agent session.
C11_NoSessionNoAgent ==
  \A r \in Relays :
    (Truthy(call_sid[r]) /\ ~hadSession[r]) => opened[r] = 0

\* C12: the relay opens an agent session only once a start event has given it the
\* call identifier of its stream (a "connected" acknowledgment before start is read
\* past, no other first event leads to an agent session), and that identifier is the
\* one it holds for the session lookup and for the finally block.
C12_StartBeforeAgent ==
  \A r \in Relays :
    opened[r] >= 1 => (Truthy(call_sid[r]) /\ call_sid[r] = connCall[r])

\* C13: action handling is sequential: once an event after a tool call has been
\* taken from the agent session, the function response with the tool call's id has
\* been sent to the agent; no audio that arrived after the tool call is on the phone
\* leg before that response.
C13_Answered(r, i) == \E k \in DOMAIN toolResp[r] : toolResp[r][k].id = i
C13_SequentialAction ==
  \A r \in Relays : \A i \in DOMAIN ax[r] :
    ax[r][i].kind = "tool_call" =>
      /\ Len(ax[r]) > i => C13_Answered(r, i)
      /\ \A k \in DOMAIN phoneOut[r] : phoneOut[r][k].seq > i => C13_Answered(r, i)
C13_Witness ==
  \E r \in Relays : \E i \in DOMAIN ax[r] :
    /\ ax[r][i].kind = "tool_call"
    /\ C13_Answered(r, i)
    /\ \E k \in DOMAIN phoneOut[r] : phoneOut[r][k].seq > i

\* C14: the function response sent to the agent for a tool call of a relay that got
\* its call identifier from start is the payload Flow B answered, success flag
\* included, whenever Flow B answered one (whether or not session_store holds a
\* session for the call identifier at that moment).
C14_RelayedVerbatim ==
  \A r \in Relays : \A k \in DOMAIN toolResp[r] :
    (Truthy(call_sid[r]) /\ toolResp[r][k].flowb # "error")
      => toolResp[r][k].response = FlowBResult(toolResp[r][k].flowb)

\* C15: when handle_booking returns for a failed action (Flow B answers success =
\* false, or the call to it errors), session_store is unchanged, a function response
\* with success = false and the tool call's id is sent to the agent, and the
\* gemini_to_twilio task is back at its receive loop.
C15_FailedOutcomes == {"unavailable", "error"}
C15_FailedActionKeepsCallRunning ==
  [][\A r \in Relays : \A o \in C15_FailedOutcomes :
        BookingDone(r, o) =>
          /\ session_store' = session_store
          /\ Len(toolResp'[r]) = Len(toolResp[r]) + 1
          /\ Last(toolResp'[r]).id = pending[r].id
          /\ ~Last(toolResp'[r]).response.success
          /\ g2t'[r] = "recv"]_vars

\* C16: once a relay has left gather, closed its agent session and gone through its
\* finally block, neither of its pipeline tasks takes a further step: nothing more is
\* read from the phone leg or from the agent session, nothing more is sent to either,
\* and no handle_booking call of the relay returns.
C16_TaskState(r) ==
  <<t2g[r], g2t[r], rx[r], ax[r], agentIn[r], phoneOut[r], toolResp[r], pending[r]>>
C16_CancelledOnTermination ==
  [][\A r \in Relays :
        (pc[r] = "done" /\ agent[r] = "closed") => C16_TaskState(r)' = C16_TaskState(r)]_vars

\* C17: session creation is insert-if-absent: an incoming_call for a call identifier
\* that has a session in session_store leaves that session, outcome fields included,
\* as it is.
C17_InsertIfAbsent ==
  [][\A sid \in CallSids : \A outcome \in LookupOutcomes :
        (incoming_call(sid, outcome) /\ sid \in DOMAIN session_store)
          => session_store'[sid] = session_store[sid]]_vars

\* C18: session_store holds no session under a missing or empty call identifier.
C18_NoSessionWithoutCallSid == \A k \in DOMAIN session_store : Truthy(k)

\* C19: the finally block's membership test and the pop in trigger_post_call are one
\* step: every hand-off a relay makes took a stored session out of session_store in
\* that step, so of the relays terminating for one call identifier only one removes
\* a given session and only one hand-off is made for it.
C19_RelayHandoffs(c) ==
  {i \in DOMAIN handoffs : handoffs[i].by \in Relays /\ handoffs[i].sid = c}
C20_BookedAs(d, args) ==
  /\ d.appointmentTime = AppointmentTimeOf(args)
  /\ d.callerName = args.callerName
  /\ d.callerEmail = args.callerEmail
  /\ d.reason = args.reason
C20_Unbooked(d) ==
  /\ d.appointmentTime = "" /\ d.callerName = ""
  /\ d.callerEmail = "" /\ d.reason = ""
C20_OutcomeFields ==
  \A c \in DOMAIN session_store :
    IF session_store[c].appointmentBooked
      THEN /\ TruthyDict(confirmed[c])
           /\ C20_BookedAs(session_store[c], confirmed[c].args)
      ELSE C20_Unbooked(session_store[c])
C20_Witness ==
  \E r \in Relays :
    /\ Len(toolResp[r]) = 2
    /\ toolResp[r][1].response.success /\ toolResp[r][2].response.success
    /\ ax[r][toolResp[r][1].id].args # ax[r][toolResp[r][2].id].args
    /\ call_sid[r] \in DOMAIN session_store
    /\ session_store[call_sid[r]].appointmentBooked
    /\ C20_BookedAs(session_store[call_sid[r]], ax[r][toolResp[r][2].id].args)

====
